---- MODULE Spec2Model ----
(***************************************************************************)
(* Call controller of zvonochek: WebRTCService (src/lib/webrtc.ts) and the *)
(* reconnection helpers (src/utils/webrtcHelpers.ts).                      *)
(*                                                                         *)
(* One WebRTCService instance per user.  Every handler of the service is   *)
(* an operator from the service record to the service record; an action    *)
(* runs one handler from its entry (or from the await it was suspended at) *)
(* to its next await.  The peer-connection library (simple-peer) is        *)
(* modelled by the Peer* operators.                                        *)
(***************************************************************************)
EXTENDS Integers, Sequences, FiniteSets, TLC

VARIABLES svc, net, rcm

vars == <<svc, net, rcm>>

\* ------------------------------------------------------------------ bounds
MaxPeers == 2
MaxBuf == 1
MaxEarly == 2
MaxCand == 1
MaxReinit == 4
MaxGap == 4
MaxGrace == 1
MaxErrors == 5
MaxFlight == 2
MaxSubs == 2

\* --------------------------------------------------------------- constants
null == "null"
NoSignal == "none"
Ctl == {"A", "B"}
Me == "B"
Senders == {"A", "C"}
maxRetries == 3
\* the health poll: its period and its inactivity threshold, in seconds
PollInterval == 10
InactivityLimit == 30
QuietCap == InactivityLimit + PollInterval
undefined == "undefined"
\* ResilientChannelManager: reconnect attempts per channel, and the number of
\* recreations after which a channel is given up
maxReconnectAttempts == 5
MaxRecreations == 10
\* what the caller of an async function holds before awaiting it
Promise == "Promise"

CallStates == {"idle", "calling", "receiving", "connected"}
Types == {"offer", "answer", "candidate", "end-call", "keep_alive", "mute_status"}
PeerIds == 1..MaxPeers
\* endCall2: an endCall invoked while another endCall is still suspended
Ops == {"startCall", "answerCall", "endCall", "endCall2", "reinit", "initChannel"}

PayloadOf(type, n) ==
  IF type = "offer" THEN "o"
  ELSE IF type = "answer" THEN "a"
  ELSE IF type = "candidate" THEN (IF n = 1 THEN "c1" ELSE "c2")
  ELSE NoSignal

\* --------------------------------------------------------- simple-peer model
FreePeer ==
  [st |-> "free", sig |-> "stable", hasLocal |-> FALSE,
   hasRemote |-> FALSE, pend |-> "none", cands |-> 0, lis |-> FALSE,
   closeQ |-> FALSE, connected |-> FALSE, failed |-> FALSE]

\* new SimplePeer({initiator, trickle: true, stream}) with its four listeners
NewPeer(isInitiator) ==
  [FreePeer EXCEPT !.st = "live",
                   !.pend = IF isInitiator THEN "offer" ELSE "none",
                   !.cands = MaxCand, !.lis = TRUE]

\* peer.destroy(): the instance becomes destroyed and its 'close' event is
\* queued for the listeners that are still attached
PeerDestroy(pr) ==
  IF pr.st = "live"
  THEN [FreePeer EXCEPT !.st = "destroyed", !.closeQ = pr.lis, !.lis = pr.lis]
  ELSE pr

\* peer.signal(data) throws on a destroyed instance and on unusable data
PeerSignalThrows(pr, payload) ==
  pr.st # "live" \/ payload \in {NoSignal, "bad"}

\* peer.signal(data) on a live instance: effect on the negotiation state
PeerSignal(pr, payload) ==
  IF PeerSignalThrows(pr, payload) THEN pr
  ELSE IF payload = "o"
    THEN IF pr.sig = "have-local-offer" THEN pr
         ELSE [pr EXCEPT !.hasRemote = TRUE, !.sig = "have-remote-offer", !.pend = "answer"]
  ELSE IF payload = "a"
    THEN IF pr.sig = "have-local-offer"
         THEN [pr EXCEPT !.hasRemote = TRUE, !.sig = "stable"]
         ELSE pr
  ELSE pr

\* ------------------------------------------------------------ service record
NoCall == [op |-> "none", pc |-> "none", arg |-> null, stale |-> FALSE]
NoTimer == [set |-> FALSE, isInCall |-> FALSE, target |-> null]

InitService(u) ==
  [currentUserId |-> u, peer |-> 0, peerRef |-> 0, peers |-> [p \in PeerIds |-> FreePeer],
   localStream |-> FALSE, remoteStream |-> FALSE, channel |-> TRUE,
   \* the broadcast handlers subscribed on webrtc:<currentUserId>
   subs |-> 1,
   targetUserId |-> null, incomingCallerId |-> null, isCallActive |-> FALSE,
   signalBuffer |-> <<>>, reconnectAttempts |-> 0, reconnectTimeout |-> NoTimer,
   storeIsCalling |-> FALSE, storeError |-> null,
   \* timers: the keep-alive interval and the offline grace timeouts that are
   \* scheduled, and the network status the browser last reported
   keepAliveInterval |-> FALSE, graceTimers |-> 0, isOnline |-> TRUE,
   \* seconds since the service last ran a handler other than the health poll
   quietFor |-> 0,
   calls |-> [k \in Ops |-> NoCall],
   callState |-> "idle",
   \* outputs of the last action: the state callbacks when it made more than
   \* one state change, the envelopes sent, and the peer.signal calls of the
   \* buffer replay
   emitted |-> <<>>, outbox |-> <<>>, replayLog |-> <<>>, errors |-> <<>>,
   \* the requests the last action made to the HTTP fallback endpoint
   httpLog |-> <<>>,
   \* the arguments the last action passed to the remote-mute callback
   remoteMuted |-> <<>>,
   \* endCall invocations completed one right after the other, and the
   \* end-call envelopes they sent
   endRun |-> 0, endRunSent |-> 0,
   \* peer re-initialisations by the reconnection timer since the last connect
   \* (or forced reset)
   reinits |-> 0]

PeerLive(s) == s.peer # 0 /\ s.peers[s.peer].st = "live"

LivePeers(s) == {p \in PeerIds : s.peers[p].st = "live"}

FreeSlots(s) == {p \in PeerIds : s.peers[p].st = "free"}

MicrotaskPending(s) == \E p \in PeerIds : s.peers[p].closeQ

\* this.onStateChange?.(state)
Emit(s, state) == [s EXCEPT !.emitted = Append(@, state), !.callState = state]

\* this.onError?.(message)
Report(s, msg) == [s EXCEPT !.errors = Append(@, msg)]

\* a broadcast on the recipient's channel inside a try/catch; ok = FALSE: it threw
Send(s, env, ok) == IF ok THEN [s EXCEPT !.outbox = Append(@, env)] ELSE s

Envelope(type, from, to, signal) ==
  [type |-> type, from |-> from, to |-> to, signal |-> signal]

\* a property of a JavaScript object: undefined when the key is absent
Field(r, k) == IF k \in DOMAIN r THEN r[k] ELSE undefined

\* the JSON body sendSignal posts to the fallback endpoint
FallbackBody(data) ==
  [to |-> data.to, from |-> data.from, signal |-> data.signal,
   muted |-> Field(data, "muted")]

\* POST /api/signal: the response status and what it relays to the
\* recipient's channel
ApiSignal(body, authed) ==
  IF ~authed THEN [status |-> 401, relayed |-> <<>>]
  ELSE IF \E k \in {"to", "from", "type"} : Field(body, k) \in {undefined, null}
  THEN [status |-> 400, relayed |-> <<>>]
  ELSE [status |-> IF Field(body, "signal") \in {undefined, NoSignal} THEN 500 ELSE 200,
        relayed |-> <<Envelope(body.type, body.from, body.to, Field(body, "signal"))>>]

\* sendSignal: the realtime channel first (ok = it succeeded), then one
\* request to the fallback endpoint
SendSignal(s, data, ok, authed) ==
  IF s.peer # 0 /\ s.peers[s.peer].st = "destroyed" THEN s
  ELSE IF ok THEN [s EXCEPT !.outbox = Append(@, data)]
  ELSE LET body == FallbackBody(data)
           r == ApiSignal(body, authed)
       IN [s EXCEPT !.httpLog = Append(@, [data |-> data, body |-> body,
                                           status |-> r.status]),
                    !.outbox = @ \o r.relayed]

\* start of an action: forget the observation of the previous one
Begin(s) ==
  [s EXCEPT !.emitted = <<>>, !.outbox = <<>>, !.replayLog = <<>>, !.errors = <<>>,
            !.httpLog = <<>>, !.remoteMuted = <<>>, !.quietFor = 0]

\* the state changes among a sequence of state callbacks
RECURSIVE Changes(_, _)
Changes(from, seq) ==
  IF seq = <<>> THEN <<>>
  ELSE IF Head(seq) = from THEN Changes(from, Tail(seq))
  ELSE <<Head(seq)>> \o Changes(Head(seq), Tail(seq))

\* end of an action: a destroyed instance nobody refers to any more is gone,
\* and the callbacks of an action that changed the state at most once are
\* told by callState alone
Collect(s0, s) ==
  [s EXCEPT !.peers = [p \in PeerIds |->
              IF /\ s.peers[p].st = "destroyed" /\ ~s.peers[p].closeQ
                 /\ s.peer # p /\ s.peerRef # p
              THEN FreePeer ELSE s.peers[p]],
            !.emitted = IF Len(Changes(s0.callState, s.emitted)) > 1
                        THEN Changes(s0.callState, s.emitted) ELSE <<>>]

\* ------------------------------------------------------------------ cleanup
\* a cleanup that leaves the microphone tracks running
CleanupKeepsStream(s) ==
  LET s2 == IF PeerLive(s)
            THEN [s EXCEPT !.peers[s.peer] = PeerDestroy(@), !.peer = 0]
            ELSE s
  IN [s2 EXCEPT !.remoteStream = FALSE, !.isCallActive = FALSE]

Cleanup(s) ==
  LET s1 == [s EXCEPT !.localStream = FALSE]
      s2 == IF PeerLive(s1)
            THEN [s1 EXCEPT !.peers[s1.peer] = PeerDestroy(@), !.peer = 0]
            ELSE s1
  IN [s2 EXCEPT !.remoteStream = FALSE, !.isCallActive = FALSE]

\* --------------------------------------------------- processBufferedSignals
\* one call of this.peer.signal(payload) inside a try/catch
SignalPeer(s, p, payload) == [s EXCEPT !.peers[p] = PeerSignal(@, payload)]

RECURSIVE Replay(_, _)
Replay(s, buf) ==
  IF buf = <<>> THEN s
  ELSE LET e == Head(buf)
           s1 == IF e.signal # NoSignal
                 THEN [SignalPeer(s, s.peer, e.signal) EXCEPT !.replayLog =
                         Append(@, [peer |-> s.peer, signal |-> e.signal,
                                    threw |-> PeerSignalThrows(s.peers[s.peer], e.signal)])]
                 ELSE s
       IN Replay(s1, Tail(buf))

\* a replay loop without the try/catch around peer.signal
ProcessBufferedSignalsUntilThrow(s) ==
  IF Len(s.signalBuffer) > 0 /\ PeerLive(s)
  THEN LET buf == s.signalBuffer
           bad == {i \in 1..Len(buf) : PeerSignalThrows(s.peers[s.peer], buf[i].signal)}
           k == IF bad = {} THEN Len(buf) ELSE CHOOSE i \in bad : \A j \in bad : i <= j
       IN [Replay(s, SubSeq(buf, 1, k)) EXCEPT !.signalBuffer = <<>>]
  ELSE s

ProcessBufferedSignals(s) ==
  IF Len(s.signalBuffer) > 0 /\ PeerLive(s)
  THEN [Replay(s, s.signalBuffer) EXCEPT !.signalBuffer = <<>>]
  ELSE s

\* ------------------------------------------------------------ initializePeer
\* up to the await of getUserMedia
InitializePeerPrefix(s) ==
  IF PeerLive(s)
  THEN [s EXCEPT !.peers[s.peer] = PeerDestroy(@), !.peer = 0]
  ELSE s

NextSlot(s) == CHOOSE p \in FreeSlots(s) : \A q \in FreeSlots(s) : p <= q

\* after getUserMedia resolved
InitializePeerGranted(s, isInitiator) ==
  LET p == NextSlot(s)
      s1 == [s EXCEPT !.localStream = TRUE, !.peer = p, !.peerRef = p,
                      !.peers[p] = NewPeer(isInitiator)]
  IN ProcessBufferedSignals(s1)

\* after getUserMedia rejected: the catch block
InitializePeerDenied(s) ==
  Emit(Cleanup(Report(s, "device")), "idle")

\* ------------------------------------------- in-flight invocations (awaits)
\* at most one invocation of each operation is followed through its awaits
InFlight(s) == {k \in Ops : s.calls[k].op # "none"}

\* a teardown ran: every suspended startCall/answerCall is now out of date
MarkStale(s) ==
  [s EXCEPT !.calls = [k \in Ops |->
     IF s.calls[k].op \in {"startCall", "answerCall"}
     THEN [s.calls[k] EXCEPT !.stale = TRUE] ELSE s.calls[k]]]

\* --------------------------------------------------- initializeSignalChannel
\* where an invocation waits after testing this.channel: for the user
\* request when there was no channel, for nothing more when there was one
ChannelAwait(s) == IF s.channel THEN "chan" ELSE "user"

\* initializeSignalChannel after auth.getUser(): the channel is created, the
\* broadcast handler attached and the channel subscribed
SubscribeSignalChannel(s) == [s EXCEPT !.channel = TRUE, !.subs = @ + 1]

\* the rest of initializeSupabaseChannel for the invocation in calls[i]
AfterChannelAwait(s, i) ==
  IF s.calls[i].pc = "user" THEN SubscribeSignalChannel(s) ELSE s

\* initializeSignalChannel called by the page
InitializeSignalChannelEntry(s) ==
  IF s.channel THEN s
  ELSE [s EXCEPT !.calls["initChannel"] =
          [op |-> "initChannel", pc |-> "user", arg |-> null, stale |-> FALSE]]

InitializeSignalChannelAfterUser(s, i) ==
  [SubscribeSignalChannel(s) EXCEPT !.calls[i] = NoCall]

\* -------------------------------------------------- startCall / answerCall
\* a startCall without the guard on the live peer
StartCallEntryUnguarded(s, target) ==
  [s EXCEPT !.calls["startCall"] =
     [op |-> "startCall", pc |-> ChannelAwait(s), arg |-> target, stale |-> FALSE]]

StartCallEntry(s, target) ==
  IF PeerLive(s) THEN s
  ELSE [s EXCEPT !.calls["startCall"] =
          [op |-> "startCall", pc |-> ChannelAwait(s), arg |-> target, stale |-> FALSE]]

AnswerCallEntry(s, callerId) ==
  IF PeerLive(s) THEN s
  ELSE [s EXCEPT !.calls["answerCall"] =
          [op |-> "answerCall", pc |-> ChannelAwait(s), arg |-> callerId, stale |-> FALSE]]

\* after await initializeSupabaseChannel(), up to the await in initializePeer
StartCallAfterChannel(s, i) ==
  LET s1 == [AfterChannelAwait(s, i) EXCEPT !.targetUserId = s.calls[i].arg,
                                            !.isCallActive = TRUE]
  IN [InitializePeerPrefix(Emit(s1, "calling")) EXCEPT !.calls[i].pc = "media"]

AnswerCallAfterChannel(s, i) ==
  LET s1 == [AfterChannelAwait(s, i) EXCEPT !.targetUserId = s.calls[i].arg,
                                            !.isCallActive = TRUE]
  IN [InitializePeerPrefix(s1) EXCEPT !.calls[i].pc = "media"]

\* the rest of initializePeer and of its caller
AfterMedia(s, i, granted) ==
  LET c == s.calls[i]
      s1 == IF granted
            THEN InitializePeerGranted(s, IF c.op = "startCall" THEN TRUE
                                             ELSE IF c.op = "answerCall" THEN FALSE
                                             ELSE s.storeIsCalling)
            ELSE InitializePeerDenied(s)
      s2 == IF c.op = "answerCall" THEN Emit(s1, "connected") ELSE s1
  IN [s2 EXCEPT !.calls[i] = NoCall]

\* ------------------------------------------------------------------ endCall
\* a teardown that forgets to clear the target
EndCallTeardownKeepsTarget(s) ==
  Emit(Cleanup([s EXCEPT !.isCallActive = FALSE, !.incomingCallerId = null]), "idle")

EndCallTeardown(s) ==
  Emit(Cleanup([s EXCEPT !.isCallActive = FALSE, !.targetUserId = null,
                         !.incomingCallerId = null]), "idle")

\* one more endCall has run to its end
EndCallDone(s) ==
  LET n == Cardinality({i \in 1..Len(s.outbox) : s.outbox[i].type = "end-call"})
  IN [MarkStale(s) EXCEPT !.endRun = IF @ < 2 THEN @ + 1 ELSE 2,
                          !.endRunSent = IF @ + n < 2 THEN @ + n ELSE 2]

EndCallEntry(s) ==
  IF s.targetUserId # null
  THEN [s EXCEPT !.calls["endCall"] =
          [op |-> "endCall", pc |-> "send", arg |-> s.targetUserId, stale |-> FALSE]]
  ELSE EndCallDone(EndCallTeardown(s))

\* endCall invoked while the endCall of calls["endCall"] awaits its send
EndCallEntryAt(s, i) ==
  IF s.targetUserId # null
  THEN [s EXCEPT !.calls[i] =
          [op |-> "endCall", pc |-> "send", arg |-> s.targetUserId, stale |-> FALSE]]
  ELSE EndCallDone(EndCallTeardown(s))

EndCallAfterSend(s, i, ok) ==
  LET c == s.calls[i]
      s1 == Send(s, Envelope("end-call", s.currentUserId, c.arg, NoSignal), ok)
  IN EndCallDone([EndCallTeardown(s1) EXCEPT !.calls[i] = NoCall])

\* -------------------------------------------------------- handleRemoteEndCall
\* a remote hang-up handler that answers with an end-call of its own
HandleRemoteEndCallEcho(s) ==
  LET s0 == IF s.targetUserId # null
            THEN Send(s, Envelope("end-call", s.currentUserId, s.targetUserId, NoSignal), TRUE)
            ELSE s
      s1 == Cleanup([s0 EXCEPT !.isCallActive = FALSE, !.targetUserId = null,
                               !.incomingCallerId = null])
  IN MarkStale(Report(Emit(s1, "idle"), "ended-by-peer"))

HandleRemoteEndCall(s) ==
  LET s1 == Cleanup([s EXCEPT !.isCallActive = FALSE, !.targetUserId = null,
                              !.incomingCallerId = null])
  IN MarkStale(Report(Emit(s1, "idle"), "ended-by-peer"))

\* ----------------------------------------------------------------- forceReset
\* a reset that keeps what was buffered
ForceResetBodyKeepsBuffer(s) ==
  LET s1 == [s EXCEPT !.targetUserId = null, !.incomingCallerId = null,
                      !.isCallActive = FALSE,
                      !.reconnectTimeout = NoTimer, !.reconnectAttempts = 0]
      s2 == IF PeerLive(s1) THEN [s1 EXCEPT !.peers[s1.peer] = PeerDestroy(@)] ELSE s1
      s3 == [s2 EXCEPT !.peer = 0, !.peerRef = 0, !.channel = FALSE,
                       !.subs = IF s2.channel THEN @ - 1 ELSE @, !.reinits = 0]
  IN MarkStale(Emit(s3, "idle"))

ForceResetBody(s) ==
  LET s1 == [s EXCEPT !.targetUserId = null, !.incomingCallerId = null,
                      !.isCallActive = FALSE, !.signalBuffer = <<>>,
                      !.reconnectTimeout = NoTimer, !.reconnectAttempts = 0]
      s2 == IF PeerLive(s1) THEN [s1 EXCEPT !.peers[s1.peer] = PeerDestroy(@)] ELSE s1
      s3 == [s2 EXCEPT !.peer = 0, !.peerRef = 0, !.channel = FALSE,
                       !.subs = IF s2.channel THEN @ - 1 ELSE @, !.reinits = 0]
  IN MarkStale(Emit(s3, "idle"))

\* ------------------------------------------------- timers of the service
\* the setInterval callback of startConnectionMonitoring, gap intervals after
\* the previous one: lastActivityTime was written at the end of the previous
\* callback, so the time since the last activity is at most the gap
HealthPollBody(s, gap) ==
  LET timeSinceLastActivity == gap * PollInterval
  IN IF /\ timeSinceLastActivity > InactivityLimit /\ s.isCallActive
        /\ PeerLive(s) /\ s.peers[s.peer].failed
     THEN Report(EndCallEntry(s), "connection-lost")
     ELSE s

\* window 'offline' and 'online'
HandleOffline(s) ==
  [s EXCEPT !.isOnline = FALSE,
            !.graceTimers = IF s.isCallActive THEN @ + 1 ELSE @]

HandleOnline(s) == [s EXCEPT !.isOnline = TRUE]

\* the setTimeout callback of handleOffline
GraceTimerBody(s) ==
  LET s1 == [s EXCEPT !.graceTimers = @ - 1]
  IN IF ~s1.isOnline THEN Report(EndCallEntry(s1), "offline") ELSE s1

\* no timer of a call session is scheduled
NoSessionTimer(s) ==
  ~s.keepAliveInterval /\ s.graceTimers = 0 /\ ~s.reconnectTimeout.set

\* ------------------------------------------------------- handleIncomingSignal
\* the per-kind negotiation guard on a live peer: TRUE = ignore the envelope
\* a guard that takes an answer only in the stable state
GuardRejectsPendingAnswer(pr, type) ==
  IF type = "offer" THEN pr.sig # "stable" /\ pr.hasRemote
  ELSE IF type = "answer" THEN pr.sig # "stable"
  ELSE IF type = "candidate" THEN ~pr.hasLocal
  ELSE FALSE

GuardRejects(pr, type) ==
  IF type = "offer" THEN pr.sig # "stable" /\ pr.hasRemote
  ELSE IF type = "answer" THEN pr.sig # "have-local-offer"
  ELSE IF type = "candidate" THEN ~pr.hasLocal
  ELSE FALSE

\* a remote-mute notification that is not passed on
OnRemoteMutedChangeDropped(s, muted) == s

\* this.onRemoteMutedChange?.(muted)
OnRemoteMutedChange(s, muted) == [s EXCEPT !.remoteMuted = Append(@, muted)]

\* a buffering that does not look at the payload
BufferSignalAnyPayload(s, e) ==
  IF e.type # "end-call"
  THEN [s EXCEPT !.signalBuffer =
          Append(@, [type |-> e.type, signal |-> e.signal, from |-> e.from])]
  ELSE s

\* the peer is not ready: the envelope is buffered when it carries a payload
BufferSignal(s, e) ==
  IF e.signal # NoSignal /\ e.type # "end-call"
  THEN [s EXCEPT !.signalBuffer =
          Append(@, [type |-> e.type, signal |-> e.signal, from |-> e.from])]
  ELSE s

\* an offer branch that answers the call by itself
OfferBranchAutoAnswer(s, e) ==
  LET s1 == [Emit([s EXCEPT !.incomingCallerId = e.from, !.targetUserId = e.from],
                  "receiving") EXCEPT !.isCallActive = FALSE]
  IN IF ~PeerLive(s1) /\ FreeSlots(s1) # {} THEN InitializePeerGranted(s1, FALSE) ELSE s1

OfferBranch(s, e) ==
  [Emit([s EXCEPT !.incomingCallerId = e.from, !.targetUserId = e.from], "receiving")
     EXCEPT !.isCallActive = FALSE]

\* a handler that takes an end-call only from the target
HandleIncomingSignalEndCallFromTarget(s, e) ==
  IF e.type = "keep_alive" THEN s
  ELSE IF e.type = "mute_status" THEN OnRemoteMutedChange(s, Field(e, "muted"))
  ELSE IF e.from = s.targetUserId \/ (e.type = "offer" /\ s.targetUserId = null)
  THEN IF e.type = "end-call" THEN HandleRemoteEndCall(s)
       ELSE LET s1 == IF e.type = "offer" THEN OfferBranch(s, e) ELSE s
            IN IF PeerLive(s1)
               THEN IF GuardRejects(s1.peers[s1.peer], e.type) THEN s1
                    ELSE SignalPeer(s1, s1.peer, e.signal)
               ELSE BufferSignal(s1, e)
  ELSE s

\* a handler without the check of the sender
HandleIncomingSignalAnySender(s, e) ==
  IF e.type = "end-call" THEN HandleRemoteEndCall(s)
  ELSE IF e.type = "keep_alive" THEN s
  ELSE IF e.type = "mute_status" THEN OnRemoteMutedChange(s, Field(e, "muted"))
  ELSE LET s1 == IF e.type = "offer" THEN OfferBranch(s, e) ELSE s
       IN IF PeerLive(s1)
          THEN IF GuardRejects(s1.peers[s1.peer], e.type) THEN s1
               ELSE SignalPeer(s1, s1.peer, e.signal)
          ELSE BufferSignal(s1, e)

HandleIncomingSignal(s, e) ==
  IF e.type = "end-call" THEN HandleRemoteEndCall(s)
  ELSE IF e.type = "keep_alive" THEN s
  ELSE IF e.type = "mute_status" THEN OnRemoteMutedChange(s, Field(e, "muted"))
  ELSE IF e.from = s.targetUserId \/ (e.type = "offer" /\ s.targetUserId = null)
  THEN LET s1 == IF e.type = "offer" THEN OfferBranch(s, e) ELSE s
       IN IF PeerLive(s1)
          THEN IF GuardRejects(s1.peers[s1.peer], e.type) THEN s1
               ELSE SignalPeer(s1, s1.peer, e.signal)
          ELSE BufferSignal(s1, e)
  ELSE s

\* a broadcast reaches the service: every subscribed handler passes it to
\* handleIncomingSignal
RECURSIVE Broadcast(_, _, _)
Broadcast(s, e, n) ==
  IF n = 0 THEN s ELSE Broadcast(HandleIncomingSignal(s, e), e, n - 1)

\* ------------------------------------------------------- peer event handlers
\* this.peer.on('signal', ...)
OnSignal(s, type, payload, ok) ==
  IF s.targetUserId = null
  THEN [s EXCEPT !.signalBuffer =
          Append(@, [type |-> type, signal |-> payload, from |-> s.currentUserId])]
  ELSE SendSignal(s, Envelope(type, s.currentUserId, s.targetUserId, payload), ok, TRUE)

\* a connect handler that leaves the reconnection counter alone
OnConnectKeepsCounter(s) ==
  [Emit([s EXCEPT !.isCallActive = TRUE], "connected")
     EXCEPT !.reinits = 0, !.keepAliveInterval = TRUE]

\* this.peer.on('connect', ...)
OnConnect(s) ==
  [Emit([s EXCEPT !.isCallActive = TRUE], "connected")
     EXCEPT !.reconnectAttempts = 0, !.reinits = 0, !.keepAliveInterval = TRUE]

\* this.peer.on('error', ...)
OnError(s, abort) ==
  IF abort THEN s ELSE Emit(Cleanup(Report(s, "peer-error")), "idle")

\* a close handler that hangs up through endCall
OnCloseEndsCall(s) == EndCallEntry(s)

\* this.peer.on('close', ...)
OnClose(s) == Emit(Cleanup(s), "idle")

\* ----------------------------------------------------- webrtcHelpers.ts
CleanupAllPeerResources(s) ==
  LET s1 == [s EXCEPT !.reconnectTimeout = NoTimer, !.signalBuffer = <<>>,
                      !.reconnectAttempts = 0]
      s2 == IF s1.peerRef # 0 /\ s1.peers[s1.peerRef].st = "live"
            THEN [s1 EXCEPT !.peers[s1.peerRef] = PeerDestroy([@ EXCEPT !.lis = FALSE])]
            ELSE s1
  IN [s2 EXCEPT !.peerRef = 0]

\* useCallStore.getState().endCall()
StoreEndCall(s) == [s EXCEPT !.storeIsCalling = FALSE, !.storeError = null]

AttemptReconnectionBody(s, isInCall, targetUserId) ==
  IF s.reconnectTimeout.set \/ ~isInCall \/ targetUserId = null
  THEN s
  ELSE LET currentAttempt == s.reconnectAttempts + 1
       IN IF currentAttempt > maxRetries
          THEN StoreEndCall([CleanupAllPeerResources(s) EXCEPT
                               !.storeError = "unrecoverable"])
          ELSE [s EXCEPT !.reconnectAttempts = currentAttempt,
                         !.reconnectTimeout =
                           [set |-> TRUE, isInCall |-> isInCall, target |-> targetUserId]]

\* the setTimeout callback of attemptReconnection
ReconnectTimerBody(s) ==
  LET t == s.reconnectTimeout
      s1 == [s EXCEPT !.reconnectTimeout = NoTimer]
  IN IF t.isInCall /\ t.target # null
     THEN LET s2 == InitializePeerPrefix(CleanupAllPeerResources(s1))
          IN [s2 EXCEPT !.calls["reinit"] =
                [op |-> "reinit", pc |-> "media", arg |-> t.target, stale |-> FALSE],
                !.reinits = @ + 1]
     ELSE s1

\* ------------------------------------------------ createReconnectionManager
\* attempts, timeoutId (set or null) and isReconnecting are the variables of
\* the closure.  waiting: an invocation of reconnect() is at its delay and the
\* timer is still scheduled; inFn: the invocations of reconnect() that are
\* awaiting reconnectFn; fnCalls: the calls of reconnectFn since the last
\* reset(); said: what the reconnect() of the last action wrote to the console
CreateReconnectionManager ==
  [attempts |-> 0, timeoutId |-> FALSE, isReconnecting |-> FALSE,
   waiting |-> FALSE, inFn |-> 0, fnCalls |-> 0, said |-> "none"]

\* reconnect() resolves false at once
ReconnectRefuses(m) == m.isReconnecting \/ m.attempts >= maxReconnectAttempts

\* reconnect() up to its first await
ManagerReconnect(m) ==
  IF m.isReconnecting THEN [m EXCEPT !.said = "in-progress"]
  ELSE IF m.attempts >= maxReconnectAttempts THEN [m EXCEPT !.said = "max-reached"]
  ELSE [m EXCEPT !.attempts = @ + 1, !.isReconnecting = TRUE,
                 !.timeoutId = TRUE, !.waiting = TRUE, !.said = "attempting"]

\* the delay is over: reconnect() calls reconnectFn and awaits it
ReconnectAfterDelay(m) ==
  [m EXCEPT !.waiting = FALSE, !.inFn = @ + 1,
            !.fnCalls = IF @ <= maxReconnectAttempts THEN @ + 1 ELSE @]

\* reconnectFn is done: the finally block of reconnect().  clearTimeout stops
\* whatever timer timeoutId names now, and a stopped delay never resolves
ReconnectFinally(m) ==
  [m EXCEPT !.timeoutId = FALSE, !.waiting = FALSE, !.isReconnecting = FALSE,
            !.inFn = @ - 1]

ManagerReset(m) ==
  [m EXCEPT !.attempts = 0, !.isReconnecting = FALSE, !.timeoutId = FALSE,
            !.waiting = FALSE, !.fnCalls = 0]

ManagerCancel(m) ==
  [m EXCEPT !.timeoutId = FALSE, !.waiting = FALSE, !.isReconnecting = FALSE]

\* --------------------------------------------------- ResilientChannelManager
\* the entry of one channel name in the channels map, with the status its
\* subscription last reported and the subscribe callback it carries
NoChannel ==
  [managed |-> FALSE, status |-> "none", cb |-> "none", isHealthy |-> FALSE,
   isReconnecting |-> FALSE, errorCount |-> 0, recreationCount |-> 0,
   healthCheckTimer |-> FALSE, rm |-> CreateReconnectionManager]

Failures == {"CHANNEL_ERROR", "TIMED_OUT", "CLOSED"}

\* !value
Falsy(v) == v \in {"false", undefined, null}

\* attemptReconnection(channelState): reconnect() is async, so success is the
\* promise it returns
ChannelAttemptReconnection(c) ==
  LET success == Promise
      c1 == [c EXCEPT !.rm = ManagerReconnect(@)]
  IN IF Falsy(success) THEN [c1 EXCEPT !.managed = FALSE] ELSE c1

\* the subscribe callback of createResilientChannel; suppressed: the message
\* of a CHANNEL_ERROR is one of the expected duplicate-subscription errors
CreatedChannelStatus(c, status, suppressed) ==
  LET c0 == [c EXCEPT !.status = status]
  IN IF status = "SUBSCRIBED"
     THEN [c0 EXCEPT !.isHealthy = TRUE, !.errorCount = 0, !.rm = ManagerReset(@),
                     !.healthCheckTimer = TRUE]
     ELSE IF status = "CHANNEL_ERROR"
     THEN IF suppressed THEN c0
          ELSE LET c1 == [c0 EXCEPT !.isHealthy = FALSE, !.errorCount = @ + 1]
               IN IF c1.errorCount >= 3 /\ ~c1.isReconnecting
                  THEN ChannelAttemptReconnection(c1) ELSE c1
     ELSE LET c1 == [c0 EXCEPT !.isHealthy = FALSE]
          IN IF ~c1.isReconnecting THEN ChannelAttemptReconnection(c1) ELSE c1

\* the subscribe callback of recreateChannel
RecreatedChannelStatus(c, status, suppressed) ==
  LET c0 == [c EXCEPT !.status = status]
  IN IF status = "SUBSCRIBED"
     THEN [c0 EXCEPT !.isHealthy = TRUE, !.errorCount = 0, !.isReconnecting = FALSE,
                     !.recreationCount = 0, !.rm = ManagerReset(@),
                     !.healthCheckTimer = TRUE]
     ELSE IF status = "CHANNEL_ERROR"
     THEN IF suppressed THEN c0
          ELSE [c0 EXCEPT !.isHealthy = FALSE, !.errorCount = @ + 1]
     ELSE [c0 EXCEPT !.isHealthy = FALSE]

\* recreateChannel after its await of auth.getUser(): user is "user", "none"
\* (signed out) or "error" (the request threw); throws: creating or
\* subscribing the new channel threw
RecreateChannelAfterUser(c, user, throws) ==
  IF user = "none" THEN [c EXCEPT !.managed = FALSE]
  ELSE IF user = "error" THEN c
  ELSE IF ~c.managed THEN c
  ELSE IF c.isReconnecting THEN c
  ELSE LET c1 == [c EXCEPT !.recreationCount = @ + 1]
       IN IF c1.recreationCount > MaxRecreations THEN [c1 EXCEPT !.managed = FALSE]
          ELSE LET c2 == [c1 EXCEPT !.isReconnecting = TRUE, !.healthCheckTimer = FALSE]
               IN IF throws
                  THEN [c2 EXCEPT !.status = "none", !.cb = "none",
                                  !.errorCount = @ + 1, !.isReconnecting = FALSE]
                  ELSE [c2 EXCEPT !.status = "joining", !.cb = "recreate",
                                  !.isHealthy = FALSE]

\* the setInterval callback of startHealthCheck; inactive: the last activity
\* is longer ago than the inactivity limit
HealthCheckBody(c, inactive) ==
  IF inactive
  THEN LET c1 == [c EXCEPT !.isHealthy = FALSE]
       IN IF ~c1.isReconnecting THEN ChannelAttemptReconnection(c1) ELSE c1
  ELSE IF c.errorCount >= 5 /\ ~c.isReconnecting THEN ChannelAttemptReconnection(c)
  ELSE IF c.status = "CLOSED" /\ ~c.isReconnecting
  THEN ChannelAttemptReconnection([c EXCEPT !.isHealthy = FALSE])
  ELSE c

CheckAllChannelsHealthBody(c) ==
  IF c.managed /\ (~c.isHealthy \/ c.errorCount > 2)
  THEN ChannelAttemptReconnection(c) ELSE c

RemoveChannelBody(c) ==
  IF ~c.managed THEN c
  ELSE [c EXCEPT !.healthCheckTimer = FALSE, !.rm = ManagerCancel(@),
                 !.status = "none", !.cb = "none", !.managed = FALSE]

\* createResilientChannel up to the subscribe call: a new entry with a new
\* reconnection manager
CreateResilientChannelBody(c) ==
  [NoChannel EXCEPT !.managed = TRUE, !.status = "joining", !.cb = "create"]

\* ==================================================================== actions
\* the relay: the envelopes on their way to a controller.  With wired =
\* FALSE the other party is the environment and what is sent to it is only
\* seen in the sender's outbox.
Init ==
  /\ svc = [u \in Ctl |-> InitService(u)]
  /\ net = [wired |-> FALSE, msgs |-> <<>>]
  /\ rcm = NoChannel

Ready(u) == ~MicrotaskPending(svc[u])

\* an operation of the control surface can be invoked; overlap = FALSE keeps
\* the user from starting or answering a call while another invocation is
\* still suspended (hanging up is possible at any time)
CanInvoke(u, op, overlap) ==
  /\ Ready(u)
  /\ svc[u].calls[op].op = "none"
  /\ overlap \/ op = "endCall" \/ InFlight(svc[u]) = {}

\* the step of an endCall, or a queued callback between two of them
DoInRun(u, s) ==
  /\ svc' = [svc EXCEPT ![u] = Collect(svc[u], s)]
  /\ net' = IF net.wired THEN [net EXCEPT !.msgs = @ \o s.outbox] ELSE net
  /\ UNCHANGED rcm

\* any other step: it ends a run of successive endCall invocations
Do(u, s) == DoInRun(u, [s EXCEPT !.endRun = 0, !.endRunSent = 0])

EnvEnvelopes ==
  {Envelope("offer", f, Me, pl) : f \in Senders, pl \in {"o", NoSignal}}
  \cup {Envelope("answer", f, Me, "a") : f \in Senders}
  \cup {Envelope("candidate", "A", Me, pl) : pl \in {"c1", "bad"}}
  \cup {Envelope(ty, f, Me, NoSignal) : ty \in {"end-call", "keep_alive"}, f \in Senders}
  \cup {[type |-> "mute_status", from |-> f, to |-> Me, signal |-> NoSignal, muted |-> m] :
          f \in Senders, m \in BOOLEAN}

RaceEnvelopes ==
  {Envelope("offer", "A", Me, "o"), Envelope("end-call", "A", Me, NoSignal)}

StartCall(u, target, overlap) ==
  /\ CanInvoke(u, "startCall", overlap)
  /\ Do(u, StartCallEntry(Begin(svc[u]), target))

AnswerCall(u, callerId, overlap) ==
  /\ CanInvoke(u, "answerCall", overlap)
  /\ Do(u, AnswerCallEntry(Begin(svc[u]), callerId))

ResumeAfterChannel(u, k) ==
  /\ Ready(u) /\ svc[u].calls[k].pc \in {"chan", "user"}
  /\ svc[u].calls[k].pc = "user" => svc[u].subs < MaxSubs
  /\ Do(u, IF k = "startCall" THEN StartCallAfterChannel(Begin(svc[u]), k)
           ELSE AnswerCallAfterChannel(Begin(svc[u]), k))

ResumeAfterMedia(u, k, granted) ==
  /\ Ready(u) /\ svc[u].calls[k].pc = "media"
  /\ granted => FreeSlots(svc[u]) # {}
  /\ Do(u, AfterMedia(Begin(svc[u]), k, granted))

EndCall(u, overlap) ==
  /\ CanInvoke(u, "endCall", overlap)
  /\ DoInRun(u, EndCallEntry(Begin(svc[u])))

ResumeAfterSend(u, ok) ==
  /\ Ready(u) /\ svc[u].calls["endCall"].pc = "send"
  /\ DoInRun(u, EndCallAfterSend(Begin(svc[u]), "endCall", ok))

\* endCall is invoked again (a second click, the grace timer or the health
\* poll) while an earlier invocation is suspended at its send
EndCallOverlapping(u) ==
  /\ Ready(u) /\ svc[u].calls["endCall"].pc = "send"
  /\ svc[u].calls["endCall2"].op = "none"
  /\ DoInRun(u, EndCallEntryAt(Begin(svc[u]), "endCall2"))

ResumeAfterSendAt(u, i, ok) ==
  /\ Ready(u) /\ svc[u].calls[i].pc = "send"
  /\ DoInRun(u, EndCallAfterSend(Begin(svc[u]), i, ok))

ForceReset(u) ==
  /\ Ready(u)
  /\ Do(u, ForceResetBody(Begin(svc[u])))

\* the page calls initializeSignalChannel
InitializeSignalChannel(u) ==
  /\ Ready(u) /\ svc[u].calls["initChannel"].op = "none"
  /\ Do(u, InitializeSignalChannelEntry(Begin(svc[u])))

ResumeAfterUser(u) ==
  /\ Ready(u) /\ svc[u].calls["initChannel"].pc = "user"
  /\ svc[u].subs < MaxSubs
  /\ Do(u, InitializeSignalChannelAfterUser(Begin(svc[u]), "initChannel"))

\* the channel delivers envelope e while fewer than cap signals are buffered
ReceiveWithin(u, e, cap) ==
  /\ Ready(u) /\ svc[u].subs > 0
  /\ Len(svc[u].signalBuffer) < cap
  /\ Do(u, Broadcast(Begin(svc[u]), e, svc[u].subs))

Receive(u, e) == ReceiveWithin(u, e, MaxBuf)

\* the peer raises 'signal': its offer, its answer, or a trickled candidate
PeerEmitsSignal(u, p, ok) ==
  LET s == svc[u]
      pr == s.peers[p]
  IN /\ Ready(u) /\ pr.st = "live" /\ pr.lis
     /\ Len(s.signalBuffer) < MaxBuf
     /\ \/ pr.pend # "none"
        \/ pr.hasLocal /\ pr.cands > 0
     /\ LET type == IF pr.pend # "none" THEN pr.pend ELSE "candidate"
            pr1 == IF pr.pend = "offer"
                   THEN [pr EXCEPT !.sig = "have-local-offer", !.hasLocal = TRUE, !.pend = "none"]
                   ELSE IF pr.pend = "answer"
                   THEN [pr EXCEPT !.sig = "stable", !.hasLocal = TRUE, !.pend = "none"]
                   ELSE [pr EXCEPT !.cands = @ - 1]
            payload == PayloadOf(type, IF pr.cands = MaxCand THEN 1 ELSE 2)
            s0 == [Begin(s) EXCEPT !.peers[p] = pr1]
        IN Do(u, OnSignal(s0, type, payload, ok))

\* the peer raises 'connect'
PeerConnects(u, p) ==
  LET s == svc[u]
      pr == s.peers[p]
  IN /\ Ready(u) /\ pr.st = "live" /\ pr.lis /\ ~pr.connected
     /\ pr.hasLocal /\ pr.hasRemote /\ pr.sig = "stable"
     /\ Do(u, OnConnect([Begin(s) EXCEPT !.peers[p].connected = TRUE]))

\* the peer fails by itself: it destroys itself and raises 'error', then 'close'
PeerFails(u, p, abort) ==
  LET s == svc[u]
      pr == s.peers[p]
  IN /\ Ready(u) /\ pr.st = "live" /\ pr.lis
     /\ LET s0 == [Begin(s) EXCEPT !.peers[p] = [PeerDestroy(pr) EXCEPT !.closeQ = FALSE]]
        IN Do(u, OnClose(OnError(s0, abort)))

\* the queued 'close' of an instance destroyed by the service
PeerCloses(u, p) ==
  LET s == svc[u]
  IN /\ s.peers[p].closeQ
     /\ DoInRun(u, OnClose([Begin(s) EXCEPT !.peers[p].closeQ = FALSE]))

AttemptReconnection(u) ==
  /\ Ready(u)
  /\ LET s == svc[u]
     IN Do(u, AttemptReconnectionBody(Begin(s), s.isCallActive, s.targetUserId))

ReconnectTimerFires(u) ==
  /\ Ready(u) /\ svc[u].reconnectTimeout.set
  /\ svc[u].calls["reinit"].op = "none" /\ svc[u].reinits < MaxReinit
  /\ Do(u, ReconnectTimerBody(Begin(svc[u])))

\* the connection state of the peer becomes 'failed' and no event is raised
PcFails(u, p) ==
  /\ Ready(u) /\ svc[u].peers[p].st = "live" /\ ~svc[u].peers[p].failed
  /\ svc' = [svc EXCEPT ![u].peers[p].failed = TRUE]
  /\ UNCHANGED <<net, rcm>>

\* gap poll intervals pass with no other handler running, then the health
\* poll runs (a gap above 1: the browser held the interval timer back)
HealthPoll(u, gap) ==
  /\ Ready(u) /\ svc[u].calls["endCall"].op = "none"
  /\ LET quiet == svc[u].quietFor + gap * PollInterval
     IN Do(u, [HealthPollBody(Begin(svc[u]), gap) EXCEPT
                 !.quietFor = IF quiet < QuietCap THEN quiet ELSE QuietCap])

GoesOffline(u) ==
  /\ Ready(u) /\ svc[u].isOnline
  /\ svc[u].isCallActive => svc[u].graceTimers < MaxGrace
  /\ Do(u, HandleOffline(Begin(svc[u])))

GoesOnline(u) ==
  /\ Ready(u) /\ ~svc[u].isOnline
  /\ Do(u, HandleOnline(Begin(svc[u])))

GraceTimerFires(u) ==
  /\ Ready(u) /\ svc[u].graceTimers > 0 /\ svc[u].calls["endCall"].op = "none"
  /\ Do(u, GraceTimerBody(Begin(svc[u])))

\* ------------------------------------------ one controller and its environment
Next ==
  \/ \E t \in Senders : StartCall(Me, t, FALSE)
  \/ \E t \in Senders : AnswerCall(Me, t, FALSE)
  \/ \E k \in {"startCall", "answerCall"} : ResumeAfterChannel(Me, k)
  \/ \E k \in {"startCall", "answerCall"}, granted \in BOOLEAN : ResumeAfterMedia(Me, k, granted)
  \/ EndCall(Me, FALSE)
  \/ \E ok \in BOOLEAN : ResumeAfterSend(Me, ok)
  \/ ForceReset(Me)
  \/ \E e \in EnvEnvelopes : Receive(Me, e)
  \/ \E p \in PeerIds, ok \in BOOLEAN : PeerEmitsSignal(Me, p, ok)
  \/ \E p \in PeerIds : PeerConnects(Me, p)
  \/ \E p \in PeerIds, abort \in BOOLEAN : PeerFails(Me, p, abort)
  \/ \E p \in PeerIds : PeerCloses(Me, p)

Spec == Init /\ [][Next]_vars

\* ------------------------ overlapping invocations of the control surface
NextRace ==
  \/ StartCall(Me, "A", TRUE)
  \/ AnswerCall(Me, "A", TRUE)
  \/ \E k \in {"startCall", "answerCall"} : ResumeAfterChannel(Me, k)
  \/ \E k \in {"startCall", "answerCall"}, granted \in BOOLEAN : ResumeAfterMedia(Me, k, granted)
  \/ EndCall(Me, TRUE)
  \/ ResumeAfterSend(Me, TRUE)
  \/ ForceReset(Me)
  \/ \E e \in RaceEnvelopes : Receive(Me, e)
  \/ \E p \in PeerIds : PeerFails(Me, p, FALSE)
  \/ \E p \in PeerIds : PeerCloses(Me, p)

SpecRace == Init /\ [][NextRace]_vars

\* ------------------------------------------------ the reconnection helper
NextReconnect ==
  \/ StartCall(Me, "A", FALSE)
  \/ ResumeAfterChannel(Me, "startCall")
  \/ \E k \in {"startCall", "reinit"} : ResumeAfterMedia(Me, k, TRUE)
  \/ EndCall(Me, FALSE)
  \/ ResumeAfterSend(Me, TRUE)
  \/ \E e \in {Envelope("answer", "A", Me, "a")} : Receive(Me, e)
  \/ \E p \in PeerIds : PeerEmitsSignal(Me, p, TRUE)
  \/ \E p \in PeerIds : PeerConnects(Me, p)
  \/ \E p \in PeerIds : PeerFails(Me, p, FALSE)
  \/ \E p \in PeerIds : PeerCloses(Me, p)
  \/ AttemptReconnection(Me)
  \/ ReconnectTimerFires(Me)

SpecReconnect == Init /\ [][NextReconnect]_vars

\* ------------------------- signals that arrive before the peer exists
ReplayEnvelopes ==
  {Envelope("offer", "A", Me, "o"), Envelope("answer", "A", Me, "a"),
   Envelope("candidate", "A", Me, "c1"), Envelope("candidate", "A", Me, "bad"),
   Envelope("end-call", "A", Me, NoSignal)}

NextReplay ==
  \/ StartCall(Me, "A", FALSE)
  \/ AnswerCall(Me, "A", FALSE)
  \/ \E k \in {"startCall", "answerCall"} : ResumeAfterChannel(Me, k)
  \/ \E k \in {"startCall", "answerCall"}, granted \in BOOLEAN : ResumeAfterMedia(Me, k, granted)
  \/ EndCall(Me, FALSE)
  \/ ResumeAfterSend(Me, TRUE)
  \/ \E e \in ReplayEnvelopes : ReceiveWithin(Me, e, MaxEarly)
  \/ \E p \in PeerIds : PeerEmitsSignal(Me, p, TRUE)
  \/ \E p \in PeerIds : PeerConnects(Me, p)
  \/ \E p \in PeerIds : PeerCloses(Me, p)

SpecReplay == Init /\ [][NextReplay]_vars

\* ------------------------------------------------ the timers of a session
NextTimers ==
  \/ StartCall(Me, "A", FALSE)
  \/ ResumeAfterChannel(Me, "startCall")
  \/ ResumeAfterMedia(Me, "startCall", TRUE)
  \/ EndCall(Me, FALSE)
  \/ ResumeAfterSend(Me, TRUE)
  \/ ForceReset(Me)
  \/ \E e \in {Envelope("answer", "A", Me, "a")} : Receive(Me, e)
  \/ \E p \in PeerIds : PeerEmitsSignal(Me, p, TRUE)
  \/ \E p \in PeerIds : PeerConnects(Me, p)
  \/ \E p \in PeerIds : PeerCloses(Me, p)
  \/ \E p \in PeerIds : PcFails(Me, p)
  \/ \E gap \in 1..MaxGap : HealthPoll(Me, gap)
  \/ GoesOffline(Me)
  \/ GoesOnline(Me)
  \/ GraceTimerFires(Me)

SpecTimers == Init /\ [][NextTimers]_vars

\* the user resets the application while a call is being set up, is
\* established, has failed, or waits for the backoff of a reconnection
\* attempt to elapse
NextReset ==
  \/ StartCall(Me, "A", FALSE)
  \/ ResumeAfterChannel(Me, "startCall")
  \/ ResumeAfterMedia(Me, "startCall", TRUE)
  \/ ForceReset(Me)
  \/ EndCall(Me, FALSE)
  \/ ResumeAfterSend(Me, TRUE)
  \/ \E e \in {Envelope("offer", "A", Me, "o"), Envelope("answer", "A", Me, "a")} :
       Receive(Me, e)
  \/ \E p \in PeerIds : PeerEmitsSignal(Me, p, TRUE)
  \/ \E p \in PeerIds : PeerConnects(Me, p)
  \/ \E p \in PeerIds : PeerFails(Me, p, FALSE)
  \/ \E p \in PeerIds : PeerCloses(Me, p)
  \/ AttemptReconnection(Me)

SpecReset == Init /\ [][NextReset]_vars

\* reconnection attempts during one outgoing call: the attempts, their
\* timers and the peer re-initialisations, up to the connect that resets them
NextAttempts ==
  \/ StartCall(Me, "A", FALSE)
  \/ ResumeAfterChannel(Me, "startCall")
  \/ \E k \in {"startCall", "reinit"} : ResumeAfterMedia(Me, k, TRUE)
  \/ \E e \in {Envelope("answer", "A", Me, "a")} : Receive(Me, e)
  \/ \E p \in PeerIds : PeerEmitsSignal(Me, p, TRUE)
  \/ \E p \in PeerIds : PeerConnects(Me, p)
  \/ \E p \in PeerIds : PeerCloses(Me, p)
  \/ ForceReset(Me)
  \/ AttemptReconnection(Me)
  \/ ReconnectTimerFires(Me)

SpecAttempts == Init /\ [][NextAttempts]_vars

\* ------------------------------------- two controllers joined by the relay
InitHappy ==
  /\ svc = [u \in Ctl |-> InitService(u)]
  /\ net = [wired |-> TRUE, msgs |-> <<>>]
  /\ rcm = NoChannel

\* the relay hands controller u the oldest envelope addressed to it
Deliver(u) ==
  \E i \in 1..Len(net.msgs) :
    /\ net.msgs[i].to = u
    /\ \A j \in 1..(i - 1) : net.msgs[j].to # u
    /\ Ready(u) /\ svc[u].subs > 0
    /\ Len(svc[u].signalBuffer) < MaxBuf
    /\ LET s == Broadcast(Begin(svc[u]), net.msgs[i], svc[u].subs)
       IN /\ svc' = [svc EXCEPT ![u] =
                      Collect(svc[u], [s EXCEPT !.endRun = 0, !.endRunSent = 0])]
          /\ net' = [net EXCEPT !.msgs =
                      SubSeq(@, 1, i - 1) \o SubSeq(@, i + 1, Len(@)) \o s.outbox]
          /\ UNCHANGED rcm

\* the user of u accepts the call that is ringing
AcceptCall(u) ==
  /\ svc[u].callState = "receiving" /\ svc[u].incomingCallerId # null
  /\ AnswerCall(u, svc[u].incomingCallerId, FALSE)

\* 'connect' needs the peer of the other party to have both descriptions too
PeerConnectsTo(u, p, v) ==
  /\ \E q \in PeerIds :
       LET pr == svc[v].peers[q]
       IN pr.st = "live" /\ pr.hasLocal /\ pr.hasRemote /\ pr.sig = "stable"
  /\ PeerConnects(u, p)

NextHappy ==
  \/ StartCall("A", "B", FALSE)
  \/ AcceptCall("B")
  \/ \E u \in Ctl, k \in {"startCall", "answerCall"} : ResumeAfterChannel(u, k)
  \/ \E u \in Ctl, k \in {"startCall", "answerCall"} : ResumeAfterMedia(u, k, TRUE)
  \/ \E u \in Ctl : Deliver(u)
  \/ \E u \in Ctl, p \in PeerIds : PeerEmitsSignal(u, p, TRUE)
  \/ \E u \in Ctl, p \in PeerIds : PeerConnectsTo(u, p, CHOOSE v \in Ctl : v # u)

\* the relay delivers, the device is granted, and every continuation and
\* peer event that is due runs; the users act when they please
FairHappy ==
  \A u \in Ctl :
    /\ WF_vars(Deliver(u))
    /\ \A k \in {"startCall", "answerCall"} :
         WF_vars(ResumeAfterChannel(u, k)) /\ WF_vars(ResumeAfterMedia(u, k, TRUE))
    /\ \A p \in PeerIds :
         /\ WF_vars(PeerEmitsSignal(u, p, TRUE))
         /\ WF_vars(PeerConnectsTo(u, p, CHOOSE v \in Ctl : v # u))

SpecHappy == InitHappy /\ [][NextHappy]_vars /\ FairHappy

\* ----------------------------- the signal channel from construction onwards
\* the service as its constructor leaves it: no channel yet
InitPage ==
  /\ svc = [u \in Ctl |-> [InitService(u) EXCEPT !.channel = FALSE, !.subs = 0]]
  /\ net = [wired |-> FALSE, msgs |-> <<>>]
  /\ rcm = NoChannel

NextInit ==
  \/ InitializeSignalChannel(Me)
  \/ ResumeAfterUser(Me)
  \/ StartCall(Me, "A", TRUE)
  \/ AnswerCall(Me, "A", TRUE)
  \/ \E k \in {"startCall", "answerCall"} : ResumeAfterChannel(Me, k)
  \/ \E k \in {"startCall", "answerCall"}, granted \in BOOLEAN : ResumeAfterMedia(Me, k, granted)
  \/ EndCall(Me, TRUE)
  \/ ResumeAfterSend(Me, TRUE)
  \/ ForceReset(Me)
  \/ \E e \in RaceEnvelopes : Receive(Me, e)
  \/ \E p \in PeerIds : PeerCloses(Me, p)

SpecInit == InitPage /\ [][NextInit]_vars

\* ------------------------------------------- overlapping endCall invocations
NextHangup ==
  \/ \E t \in Senders : StartCall(Me, t, FALSE)
  \/ \E t \in Senders : AnswerCall(Me, t, FALSE)
  \/ \E k \in {"startCall", "answerCall"} : ResumeAfterChannel(Me, k)
  \/ \E k \in {"startCall", "answerCall"}, granted \in BOOLEAN : ResumeAfterMedia(Me, k, granted)
  \/ EndCall(Me, FALSE)
  \/ EndCallOverlapping(Me)
  \/ \E i \in {"endCall", "endCall2"}, ok \in BOOLEAN : ResumeAfterSendAt(Me, i, ok)
  \/ \E e \in RaceEnvelopes : Receive(Me, e)
  \/ \E p \in PeerIds : PeerEmitsSignal(Me, p, TRUE)
  \/ \E p \in PeerIds : PeerConnects(Me, p)
  \/ \E p \in PeerIds : PeerCloses(Me, p)

SpecHangup == Init /\ [][NextHangup]_vars

\* -------------------------------------- the channel manager and one channel
\* a handler of the channel manager starts: nothing is written yet
BeginChannel(c) == [c EXCEPT !.rm.said = "none"]

\* a channel is created under a name no earlier reconnect is still running for
CreateResilientChannel ==
  /\ ~RemoveChannelBody(rcm).managed /\ rcm.rm.inFn = 0
  /\ rcm' = CreateResilientChannelBody(RemoveChannelBody(BeginChannel(rcm)))
  /\ UNCHANGED <<svc, net>>

\* the subscription of the channel reports a status to its callback
ChannelStatus(status, suppressed) ==
  /\ rcm.cb # "none"
  /\ suppressed => status = "CHANNEL_ERROR"
  /\ (status = "CHANNEL_ERROR" /\ ~suppressed) => rcm.errorCount < MaxErrors
  /\ rcm' = IF rcm.cb = "create"
            THEN CreatedChannelStatus(BeginChannel(rcm), status, suppressed)
            ELSE RecreatedChannelStatus(BeginChannel(rcm), status, suppressed)
  /\ UNCHANGED <<svc, net>>

\* the delay timer of reconnect() fires
DelayElapses ==
  /\ rcm.rm.waiting /\ rcm.rm.inFn < MaxFlight
  /\ rcm' = [BeginChannel(rcm) EXCEPT !.rm = ReconnectAfterDelay(@)]
  /\ UNCHANGED <<svc, net>>

\* auth.getUser() settles inside recreateChannel: the rest of recreateChannel
\* runs, and then the rest of the reconnect() that awaited it
GetUserResolves(user, throws) ==
  /\ rcm.rm.inFn > 0
  /\ throws => user = "user" /\ rcm.errorCount < MaxErrors
  /\ rcm' = [RecreateChannelAfterUser(BeginChannel(rcm), user, throws) EXCEPT
              !.rm = ReconnectFinally(@)]
  /\ UNCHANGED <<svc, net>>

HealthCheckTick(inactive) ==
  /\ rcm.healthCheckTimer
  /\ rcm' = HealthCheckBody(BeginChannel(rcm), inactive)
  /\ UNCHANGED <<svc, net>>

\* a WebSocket error or close was seen: checkAllChannelsHealth runs
CheckAllChannelsHealth ==
  /\ rcm.managed
  /\ rcm' = CheckAllChannelsHealthBody(BeginChannel(rcm))
  /\ UNCHANGED <<svc, net>>

RemoveChannel ==
  /\ rcm.managed
  /\ rcm' = RemoveChannelBody(BeginChannel(rcm))
  /\ UNCHANGED <<svc, net>>

Statuses == {"SUBSCRIBED"} \cup Failures

NextChannel ==
  \/ CreateResilientChannel
  \/ \E status \in Statuses, suppressed \in BOOLEAN : ChannelStatus(status, suppressed)
  \/ DelayElapses
  \/ \E user \in {"user", "none", "error"}, throws \in BOOLEAN : GetUserResolves(user, throws)
  \/ \E inactive \in BOOLEAN : HealthCheckTick(inactive)
  \/ CheckAllChannelsHealth
  \/ RemoveChannel

SpecChannel == Init /\ [][NextChannel]_vars

\* the timers fire, the user request settles with the user signed in, and
\* WebSocket trouble keeps being noticed; the statuses a subscription reports
\* are up to the network
FairChannel ==
  /\ WF_vars(DelayElapses)
  /\ WF_vars(GetUserResolves("user", FALSE))
  /\ WF_vars(\E inactive \in BOOLEAN : HealthCheckTick(inactive))
  /\ WF_vars(CheckAllChannelsHealth)

SpecChannelLive == SpecChannel /\ FairChannel

\* ===================================================================== claims
me == svc[Me]

EndCallsIn(box) == {i \in 1..Len(box) : box[i].type = "end-call"}

\* what the controller holds of a call session
CoreView(s) ==
  <<s.peer, s.peers, s.localStream, s.targetUserId, s.incomingCallerId,
    s.isCallActive, s.signalBuffer, s.callState>>

\* the state changes the last step reported, starting from the state before it
ReportedChain(before, s) ==
  <<before>> \o (IF s.emitted # <<>> THEN s.emitted
                 ELSE IF s.callState # before THEN <<s.callState>> ELSE <<>>)

AllowedChanges ==
  {<<"idle", "calling">>, <<"idle", "receiving">>, <<"calling", "connected">>,
   <<"calling", "idle">>, <<"receiving", "connected">>, <<"receiving", "idle">>,
   <<"connected", "idle">>}

\* C1: at most one non-destroyed peer session exists in every reachable
\* state, whatever the interleaving of startCall and answerCall.
C1_SingleLivePeer == Cardinality(LivePeers(me)) <= 1

\* C2: a startCall/answerCall continuation that resumes after endCall,
\* handleRemoteEndCall or forceReset ran during its suspension is discarded:
\* it creates no peer, keeps no stream, buffers nothing and reports no state.
C2_StaleContinuationDiscarded ==
  [][\A k \in {"startCall", "answerCall"} :
       (/\ me.calls[k].stale
        /\ \/ ResumeAfterChannel(Me, k)
           \/ \E granted \in BOOLEAN : ResumeAfterMedia(Me, k, granted))
       => CoreView(svc'[Me]) = CoreView(me)]_vars

\* C3: every reported CallState change is one of idle->calling,
\* idle->receiving, calling->connected, calling->idle, receiving->connected,
\* receiving->idle, connected->idle.
C3_OnlyAllowedChanges ==
  [][LET chain == ReportedChain(me.callState, svc'[Me])
     IN \A i \in 1..(Len(chain) - 1) : <<chain[i], chain[i + 1]>> \in AllowedChanges]_vars

\* C4: without a successful connect in between, the reconnection timer
\* re-initialises the peer at most maxRetries times.
C4_ReinitsBounded == me.reinits <= maxRetries

\* C5: handling an end-call envelope, and the peer close/error callbacks it
\* triggers, send no end-call envelope (and start no endCall).
C5_NoEchoOnRemoteEnd ==
  [][(\/ \E e \in EnvEnvelopes : e.type = "end-call" /\ Receive(Me, e)
      \/ \E p \in PeerIds : PeerCloses(Me, p))
     => /\ EndCallsIn(svc'[Me].outbox) = {}
        /\ svc'[Me].calls["endCall"] = me.calls["endCall"]]_vars

W_C5 ==
  /\ me.errors = <<"ended-by-peer">> /\ me.outbox = <<>>
  /\ \E p \in PeerIds : me.peers[p].closeQ

\* C6: after endCall has completed, and again after a second endCall right
\* after it, the controller is idle with no target, no incoming caller, no
\* live peer and no local stream; the two together send at most one end-call.
C6_EndCallIdempotent ==
  /\ me.endRun >= 1 =>
       /\ me.callState = "idle" /\ me.targetUserId = null
       /\ me.incomingCallerId = null /\ ~PeerLive(me) /\ ~me.localStream
  /\ me.endRun = 2 => me.endRunSent <= 1

W_C6 == me.endRun = 2 /\ me.endRunSent = 1

\* C7: the entries of the signal buffer are applied to the new peer in
\* arrival order, an entry that throws does not stop the later ones, and the
\* buffer is empty afterwards.
C7_ReplayInOrder ==
  [][\A k \in {"startCall", "answerCall", "reinit"} :
       ResumeAfterMedia(Me, k, TRUE) =>
         /\ svc'[Me].signalBuffer = <<>>
         /\ svc'[Me].replayLog =
              [i \in 1..Len(me.signalBuffer) |->
                 [peer |-> svc'[Me].peer, signal |-> me.signalBuffer[i].signal,
                  threw |-> me.signalBuffer[i].signal = "bad"]]]_vars

W_C7 ==
  /\ Len(me.replayLog) = 2 /\ me.signalBuffer = <<>>
  /\ me.replayLog[1].threw /\ ~me.replayLog[2].threw

\* C8: an offer that arrives while no target is set records the sender as
\* incoming caller and target, reports receiving and is buffered, not
\* negotiated.
C8_OfferWithoutTargetBuffered ==
  [][\A e \in EnvEnvelopes :
       (e.type = "offer" /\ e.signal # NoSignal /\ me.targetUserId = null /\ Receive(Me, e))
       => /\ svc'[Me].incomingCallerId = e.from /\ svc'[Me].targetUserId = e.from
          /\ svc'[Me].callState = "receiving"
          /\ svc'[Me].signalBuffer =
               Append(me.signalBuffer, [type |-> "offer", signal |-> e.signal, from |-> e.from])
          /\ svc'[Me].peers = me.peers]_vars

BothConnected ==
  \A u \in Ctl :
    /\ svc[u].callState = "connected"
    /\ PeerLive(svc[u]) /\ svc[u].peers[svc[u].peer].connected

\* C10: once A has invoked startCall(B), B eventually reports receiving with
\* A as incoming caller; once B has invoked answerCall(A), both controllers
\* eventually are connected.
C10_HappyPath ==
  /\ (svc["A"].calls["startCall"].op = "startCall")
       ~> (svc["B"].callState = "receiving" /\ svc["B"].incomingCallerId = "A")
  /\ (svc["B"].calls["answerCall"].op = "answerCall") ~> BothConnected

W_C10 == BothConnected /\ net.msgs = <<>>

\* C11: when the health poll runs while the call is active, the connection
\* state of the peer is failed and nothing has happened for longer than the
\* inactivity threshold, it ends the call and reports the connection-lost
\* error once.
C11_HealthPollEndsDeadCall ==
  [][\A gap \in 1..MaxGap :
       (/\ me.isCallActive /\ PeerLive(me) /\ me.peers[me.peer].failed
        /\ me.quietFor + gap * PollInterval > InactivityLimit
        /\ HealthPoll(Me, gap))
       => /\ svc'[Me].errors = <<"connection-lost">>
          /\ svc'[Me].callState = "idle" \/ svc'[Me].calls["endCall"].op = "endCall"]_vars

\* C12: forceReset, from any state (a target together with a destroyed peer
\* that is still referenced included), leaves no target, no incoming caller,
\* no peer reference, an empty signal buffer, reconnection counter 0 and
\* CallState idle, and sends nothing.
C12_ForceResetClearsAll ==
  [][ForceReset(Me)
     => LET s == svc'[Me]
        IN /\ s.targetUserId = null /\ s.incomingCallerId = null
           /\ s.peer = 0 /\ s.peerRef = 0 /\ s.signalBuffer = <<>>
           /\ s.reconnectAttempts = 0 /\ ~s.reconnectTimeout.set
           /\ s.callState = "idle"
           /\ s.outbox = <<>> /\ s.httpLog = <<>>]_vars

W_C12 ==
  /\ ~me.channel /\ me.callState = "idle" /\ me.targetUserId = null
  /\ me.peer = 0 /\ me.peerRef = 0 /\ me.signalBuffer = <<>>
  /\ \E p \in PeerIds : me.peers[p].closeQ

\* C13: endCall, in whatever state it is invoked, ends idle with no target,
\* no incoming caller, no live peer and the local stream released; an
\* end-call envelope is sent only to the target that was set at invocation.
C13_EndCallFromAnyState ==
  [][(\/ EndCall(Me, FALSE) /\ me.targetUserId = null
      \/ \E ok \in BOOLEAN : ResumeAfterSend(Me, ok))
     => LET s == svc'[Me]
        IN /\ s.callState = "idle" /\ s.targetUserId = null
           /\ s.incomingCallerId = null /\ LivePeers(s) = {} /\ ~s.localStream
           /\ Cardinality(EndCallsIn(s.outbox)) <= 1
           /\ \A i \in EndCallsIn(s.outbox) :
                /\ me.calls["endCall"].op = "endCall"
                /\ s.outbox[i].to = me.calls["endCall"].arg]_vars

W_C13 ==
  /\ me.endRun = 1 /\ me.endRunSent = 1 /\ me.callState = "idle"
  /\ \E p \in PeerIds : me.peers[p].closeQ

\* C14: whenever CallState is idle and no startCall or answerCall is under
\* way, targetUserId is null.
C14_IdleHasNoTarget ==
  (/\ me.callState = "idle"
   /\ me.calls["startCall"].op = "none" /\ me.calls["answerCall"].op = "none")
  => me.targetUserId = null

\* C15: when the audio device cannot be acquired during startCall or
\* answerCall, one error is reported, no peer and no local stream remain and
\* the last CallState reported is idle.
C15_DeviceErrorEndsAttempt ==
  [][\A k \in {"startCall", "answerCall"} :
       ResumeAfterMedia(Me, k, FALSE)
       => LET s == svc'[Me]
          IN /\ s.errors = <<"device">>
             /\ LivePeers(s) = {} /\ ~s.localStream
             /\ s.callState = "idle"]_vars

\* C16: answerCall invoked while no incoming offer has set incomingCallerId
\* does not start: no peer, no target, no connected state.
C16_AnswerNeedsIncomingOffer ==
  [][\A t \in Senders :
       (me.incomingCallerId = null /\ AnswerCall(Me, t, FALSE))
       => svc'[Me].calls["answerCall"].op = "none"]_vars

\* C17: startCall or answerCall invoked while a live peer exists changes
\* nothing, sends nothing and reports no error.
C17_GuardedNoOp ==
  [][\A t \in Senders :
       (PeerLive(me) /\ (StartCall(Me, t, FALSE) \/ AnswerCall(Me, t, FALSE)))
       => /\ CoreView(svc'[Me]) = CoreView(me)
          /\ svc'[Me].calls = me.calls
          /\ svc'[Me].outbox = <<>> /\ svc'[Me].errors = <<>>]_vars

W_C17 ==
  /\ PeerLive(me) /\ me.peers[me.peer].connected /\ me.callState = "connected"
  /\ InFlight(me) = {} /\ me.outbox = <<>> /\ me.emitted = <<>> /\ me.errors = <<>>
  /\ me.replayLog = <<>> /\ me.httpLog = <<>>

\* C18: when endCall or forceReset has returned, no keep-alive interval, no
\* reconnection timeout and no offline grace timeout is scheduled any more.
C18_TimersCancelled ==
  [][(\/ EndCall(Me, FALSE) /\ me.targetUserId = null
      \/ ResumeAfterSend(Me, TRUE)
      \/ ForceReset(Me))
     => NoSessionTimer(svc'[Me])]_vars

\* C19: an envelope whose realtime send failed goes once to the HTTP
\* fallback endpoint with a body that carries the same kind, sender,
\* recipient, payload and muted flag, and the endpoint relays it.
C19_FallbackCarriesEnvelope ==
  /\ Len(me.httpLog) <= 1
  /\ \A i \in 1..Len(me.httpLog) :
       LET h == me.httpLog[i]
       IN /\ \A k \in {"type", "from", "to", "signal", "muted"} :
               Field(h.body, k) = Field(h.data, k)
          /\ h.status = 200
          /\ \E j \in 1..Len(me.outbox) : me.outbox[j] = h.data

C21_LateTimerDoesNothing ==
  [][(ReconnectTimerFires(Me) /\ (~me.isCallActive \/ me.targetUserId = null))
     => /\ svc'[Me].calls["reinit"].op = "none"
        /\ svc'[Me].peers = me.peers]_vars

\* C23: while a reconnection attempt is scheduled, or the peer
\* re-initialisation it triggered has not completed, attemptReconnection
\* schedules no timer and leaves the counter alone.
C23_NoOverlappingAttempts ==
  [][(AttemptReconnection(Me)
       /\ (me.reconnectTimeout.set \/ me.calls["reinit"].op # "none"))
     => /\ svc'[Me].reconnectTimeout = me.reconnectTimeout
        /\ svc'[Me].reconnectAttempts = me.reconnectAttempts]_vars

\* C22: the reconnection counter lies in 0..maxRetries in every reachable
\* state and is 0 right after every peer connect.
C22_CounterBounded ==
  /\ [](me.reconnectAttempts \in 0..maxRetries)
  /\ [][(\E p \in PeerIds : PeerConnects(Me, p))
        => svc'[Me].reconnectAttempts = 0]_vars

W_C22 ==
  /\ me.callState = "connected" /\ PeerLive(me) /\ me.peers[me.peer].connected
  /\ me.reconnectTimeout.set /\ me.reconnectAttempts = 0

\* C24: an end-call envelope, in any state and from any sender, stops the
\* session (no live peer, local stream released), clears targetUserId and
\* incomingCallerId, reports idle and raises the ended-by-peer notice.
C24_EndCallSignalStopsSession ==
  [][\A e \in EnvEnvelopes :
       (e.type = "end-call" /\ Receive(Me, e))
       => LET s == svc'[Me]
          IN /\ ~PeerLive(s) /\ LivePeers(s) = {} /\ ~s.localStream
             /\ s.targetUserId = null /\ s.incomingCallerId = null
             /\ s.callState = "idle" /\ s.errors = <<"ended-by-peer">>]_vars

W_C24 ==
  /\ me.errors = <<"ended-by-peer">> /\ me.callState = "idle"
  /\ me.targetUserId = null /\ me.incomingCallerId = null
  /\ ~me.localStream /\ LivePeers(me) = {} /\ ~me.isCallActive
  /\ \E p \in PeerIds : me.peers[p].closeQ /\ me.peer = 0

\* the per-kind precondition for handing an envelope to a live peer
Admissible(pr, type) ==
  IF type = "offer" THEN ~(pr.hasRemote /\ pr.sig # "stable")
  ELSE IF type = "answer" THEN pr.sig = "have-local-offer"
  ELSE pr.hasLocal

\* C25: with a live peer, an offer, answer or candidate from the target
\* whose per-kind precondition fails does not reach the peer, is not
\* buffered and changes neither CallState nor targetUserId nor
\* incomingCallerId.
C25_RejectedEnvelopeDropped ==
  [][\A e \in EnvEnvelopes :
       (/\ e.type \in {"offer", "answer", "candidate"}
        /\ PeerLive(me) /\ e.from = me.targetUserId
        /\ ~Admissible(me.peers[me.peer], e.type)
        /\ Receive(Me, e))
       => /\ svc'[Me].peers = me.peers
          /\ svc'[Me].signalBuffer = me.signalBuffer
          /\ svc'[Me].callState = me.callState
          /\ svc'[Me].targetUserId = me.targetUserId
          /\ svc'[Me].incomingCallerId = me.incomingCallerId]_vars

\* the payloads live delivery would hand to a peer in state pr for the
\* envelopes of buf, one after the other
RECURSIVE ForwardedLive(_, _)
ForwardedLive(pr, buf) ==
  IF buf = <<>> THEN <<>>
  ELSE LET e == Head(buf)
       IN IF GuardRejects(pr, e.type) THEN ForwardedLive(pr, Tail(buf))
          ELSE <<e.signal>> \o ForwardedLive(PeerSignal(pr, e.signal), Tail(buf))

\* C26: the replay of the buffer hands the new peer exactly the entries that
\* live delivery would have forwarded to it in the same peer state.
C26_ReplayAppliesGuard ==
  [][\A k \in {"startCall", "answerCall"} :
       ResumeAfterMedia(Me, k, TRUE)
       => [i \in 1..Len(svc'[Me].replayLog) |-> svc'[Me].replayLog[i].signal]
            = ForwardedLive(NewPeer(k = "startCall"), me.signalBuffer)]_vars

\* C27: when a call attempt has ended (endCall completed, an end-call
\* envelope was handled, the peer closed or failed) the signal buffer is
\* empty.
C27_BufferEmptyAfterAttempt ==
  [][(\/ EndCall(Me, FALSE) /\ me.targetUserId = null
      \/ \E ok \in BOOLEAN : ResumeAfterSend(Me, ok)
      \/ \E e \in EnvEnvelopes : e.type = "end-call" /\ Receive(Me, e)
      \/ \E p \in PeerIds : PeerCloses(Me, p)
      \/ \E p \in PeerIds, abort \in BOOLEAN : PeerFails(Me, p, abort))
     => svc'[Me].signalBuffer = <<>>]_vars

\* C28: when answerCall has completed, when endCall has completed and when
\* an end-call envelope has been handled, incomingCallerId is null.
C28_IncomingCallerTransient ==
  [][(\/ \E granted \in BOOLEAN : ResumeAfterMedia(Me, "answerCall", granted)
      \/ EndCall(Me, FALSE) /\ me.targetUserId = null
      \/ \E ok \in BOOLEAN : ResumeAfterSend(Me, ok)
      \/ \E e \in EnvEnvelopes : e.type = "end-call" /\ Receive(Me, e))
     => svc'[Me].incomingCallerId = null]_vars

\* C29: in every reachable state each entry of the signal buffer is an
\* offer, an answer or a candidate and carries a payload.
C29_OnlyNegotiationBuffered ==
  \A i \in 1..Len(me.signalBuffer) :
    /\ me.signalBuffer[i].type \in {"offer", "answer", "candidate"}
    /\ me.signalBuffer[i].signal # NoSignal

W_C29 ==
  /\ me.callState = "receiving" /\ me.incomingCallerId = "A"
  /\ me.signalBuffer = <<>> /\ InFlight(me) = {} /\ me.peer = 0

\* C30: a keep-alive or mute-status envelope, from any sender and in any
\* state, changes nothing the controller holds of the session, reports no
\* state and no error and sends nothing; mute-status calls the remote-mute
\* callback once with the flag of the envelope, keep-alive does not call it.
C30_SideChannelFrame ==
  [][\A e \in EnvEnvelopes :
       (e.type \in {"keep_alive", "mute_status"} /\ Receive(Me, e))
       => LET s == svc'[Me]
          IN /\ CoreView(s) = CoreView(me)
             /\ s.calls = me.calls /\ s.peerRef = me.peerRef
             /\ s.outbox = <<>> /\ s.httpLog = <<>>
             /\ s.errors = <<>> /\ s.emitted = <<>>
             /\ s.remoteMuted = IF e.type = "mute_status"
                                THEN <<Field(e, "muted")>> ELSE <<>>]_vars

W_C30 ==
  /\ me.remoteMuted = <<TRUE>> /\ me.callState = "connected"
  /\ PeerLive(me) /\ me.peers[me.peer].connected
  /\ me.outbox = <<>> /\ me.errors = <<>>

\* C31: a grace timer that fires while the browser is still offline and the
\* call is active ends the call and reports the connection loss; one that
\* fires after connectivity returned, or after the call has ended, ends no
\* call, sends nothing and reports no error.
C31_GraceTimerOnlyWhenStillLost ==
  [][GraceTimerFires(Me)
     => LET s == svc'[Me]
        IN IF ~me.isOnline /\ me.isCallActive
           THEN /\ s.errors = <<"offline">>
                /\ s.callState = "idle" \/ s.calls["endCall"].op = "endCall"
           ELSE /\ s.errors = <<>> /\ s.outbox = <<>>
                /\ s.calls["endCall"] = me.calls["endCall"]
                /\ s.callState = me.callState /\ s.emitted = <<>>]_vars

\* C32: the close event of a peer that cleanup, endCall or forceReset has
\* destroyed changes nothing the controller holds: not the CallState, not the
\* active flag, not the local stream, not the current peer or any live peer,
\* and it reports no error.
C32_DestroyedPeerIsSilent ==
  [][\A p \in PeerIds :
       PeerCloses(Me, p)
       => /\ svc'[Me].callState = me.callState
          /\ svc'[Me].isCallActive = me.isCallActive
          /\ svc'[Me].localStream = me.localStream
          /\ svc'[Me].peer = me.peer
          /\ LivePeers(svc'[Me]) = LivePeers(me)
          /\ svc'[Me].errors = <<>>]_vars

\* C33: a peer close or peer error event ends with cleanup done and
\* CallState idle, starts no endCall and sends no envelope.
C33_CloseNeverEndsCall ==
  [][(\/ \E p \in PeerIds : PeerCloses(Me, p)
      \/ \E p \in PeerIds, abort \in BOOLEAN : PeerFails(Me, p, abort))
     => LET s == svc'[Me]
        IN /\ s.callState = "idle" /\ ~PeerLive(s)
           /\ ~s.localStream /\ ~s.isCallActive
           /\ s.outbox = <<>> /\ s.httpLog = <<>>
           /\ s.calls["endCall"] = me.calls["endCall"]]_vars

W_C33 ==
  /\ me.errors = <<"peer-error">> /\ me.callState = "idle"
  /\ me.targetUserId # null /\ me.outbox = <<>>
  /\ me.calls["endCall"].op = "none" /\ ~me.localStream

\* C34: the replay of the buffer into a new peer never hands that peer a
\* signal the controller's own peer had produced (an entry buffered by the
\* signal handler while no target was set).
C34_OwnSignalNotReplayed ==
  [][\A k \in {"startCall", "answerCall"} :
       ResumeAfterMedia(Me, k, TRUE)
       => \A i \in 1..Len(me.signalBuffer) :
            me.signalBuffer[i].from = me.currentUserId
            => \A j \in 1..Len(svc'[Me].replayLog) :
                 svc'[Me].replayLog[j].signal # me.signalBuffer[i].signal]_vars

\* C35: a recreated subscription that ends in TIMED_OUT, CLOSED or
\* CHANNEL_ERROR is retried: while the channel stays managed, a further
\* recreation is eventually started (or the channel subscribes after all)
C35_RecreationRetried ==
  (rcm.managed /\ rcm.cb = "recreate" /\ rcm.status \in Failures)
    ~> (~rcm.managed \/ rcm.status \in {"joining", "SUBSCRIBED"})

\* C39: a reconnect the manager refuses because the attempts have reached
\* maxReconnectAttempts removes the channel from the managed set, and a
\* reconnect it accepts leaves the channel managed
C39_RefusedReconnectRemovesChannel ==
  /\ [](rcm.rm.said = "max-reached" => ~rcm.managed)
  /\ [][(rcm.managed /\ rcm'.rm.said = "attempting") => rcm'.managed]_vars

\* C40: attempts stays within 0..maxAttempts, reconnectFn is called at most
\* maxAttempts times between two resets and never by two reconnects at once,
\* and no reconnect is accepted while another is in flight or at the maximum
C40_ManagerContract ==
  /\ [](/\ rcm.rm.attempts \in 0..maxReconnectAttempts
        /\ rcm.rm.fnCalls <= maxReconnectAttempts
        /\ rcm.rm.inFn <= 1)
  /\ [][(rcm.rm.waiting \/ rcm.rm.inFn > 0 \/ rcm.rm.attempts >= maxReconnectAttempts)
          => rcm'.rm.attempts <= rcm.rm.attempts]_vars

\* C36: a call session sends at most one end-call envelope, also when
\* invocations of endCall overlap across the asynchronous send
C36_OneEndCallPerSession == me.endRunSent <= 1

\* C37: however the invocations of initializeSignalChannel (by the page, by
\* startCall, by answerCall) interleave, the service holds at most one inbound
\* subscription, so a relayed envelope reaches handleIncomingSignal once
C37_SingleSubscription == me.subs <= 1

\* C38: forceReset leaves the controller able to receive calls: the
\* subscription that delivers an unsolicited offer is still there afterwards
C38_ResetKeepsReceiving == [][ForceReset(Me) => svc'[Me].subs > 0]_vars
====
